---- MODULE Spec2Model ----
(***************************************************************************)
(* ONNX-Inspector (src/main.py): a command line tool that loads an ONNX    *)
(* model, projects it into a six-section report with six mapping functions *)
(* and writes the report as JSON.                                          *)
(*                                                                         *)
(* Python values are modelled as follows.                                  *)
(*   - a dict is the sequence of its <<key, value>> items in insertion     *)
(*     order, keys unique;                                                 *)
(*   - a list is a sequence;                                               *)
(*   - metadata property keys are sequences of one-character strings, so   *)
(*     that str.lower() and the `in` substring test are computed;          *)
(*   - a float is the integer holding its value in tenths (15 is 1.5);     *)
(*   - a value whose Python type decides a branch of the program (a shape  *)
(*     entry that is an int or the str "?", a protobuf repeated field      *)
(*     against a list, an attribute value) carries its type.               *)
(***************************************************************************)
EXTENDS Integers, Sequences, FiniteSets, TLC

VARIABLES
    model,      \* the ModelProto stored at model_path (what onnx.load returns)
    pc,         \* position of the __main__ block / extract_onnx_metadata
    metadata,   \* the dict built by extract_onnx_metadata
    outFile,    \* the file at args.output: [exists, content]
    handle,     \* the file object f: "none", "open", "closed"
    exc,        \* the exception propagating, "none" when there is none
    stdout,     \* the lines printed
    exitCode,   \* process exit status, -1 while running
    run,        \* number of the current invocation of the tool
    prev        \* [returned, metadata, output]: what the previous invocation
                \* extracted and left in the output file

vars == <<model, pc, metadata, outFile, handle, exc, stdout, exitCode, run, prev>>

----------------------------------------------------------------------------
(* Bounds of the model.                                                    *)

MaxIO == 2          \* graph inputs / outputs per model
MaxDims == 2        \* rank of a ValueInfo shape
MaxDimValue == 2    \* largest dim_value
MaxProps == 2       \* metadata_props per model
MaxOpsets == 2      \* opset_import entries per model
MaxInits == 2       \* initializers per model
MaxNodes == 2       \* nodes per model
CodesBelow == 2     \* datatype codes tried below 1
CodesAbove == 2     \* datatype codes tried above the table
MaxRuns == 2        \* invocations of the tool on the same model

NumTypes == 16      \* last code of type_mapping

----------------------------------------------------------------------------
(* Python dict and str primitives.                                         *)

RECURSIVE SeqsUpTo(_, _)
SeqsUpTo(S, n) ==
    IF n = 0 THEN {<<>>}
    ELSE LET shorter == SeqsUpTo(S, n - 1)
         IN  shorter \cup {Append(s, x) : s \in {t \in shorter : Len(t) = n - 1}, x \in S}

DictKeys(d) == [i \in 1..Len(d) |-> d[i][1]]

DictHas(d, k) == \E i \in 1..Len(d) : d[i][1] = k

DictGet(d, k) == d[CHOOSE i \in 1..Len(d) : d[i][1] = k][2]

\* d.setdefault(k, v): an existing key keeps its value.
DictSetFirstWins(d, k, v) ==
    IF DictHas(d, k) THEN d ELSE Append(d, <<k, v>>)

\* d[k] = v: an existing key keeps its position and takes the new value,
\* a new key is appended.
DictSet(d, k, v) ==
    IF DictHas(d, k)
    THEN [i \in 1..Len(d) |-> IF d[i][1] = k THEN <<k, v>> ELSE d[i]]
    ELSE Append(d, <<k, v>>)

\* d.update(e)
RECURSIVE DictUpdate(_, _)
DictUpdate(d, e) ==
    IF Len(e) = 0 THEN d
    ELSE DictUpdate(DictSet(d, e[1][1], e[1][2]), Tail(e))

UpperCase == <<"A","B","C","D","E","F","G","H","I","J","K","L","M",
               "N","O","P","Q","R","S","T","U","V","W","X","Y","Z">>
LowerCase == <<"a","b","c","d","e","f","g","h","i","j","k","l","m",
               "n","o","p","q","r","s","t","u","v","w","x","y","z">>

\* str.lower()
lower(s) ==
    [i \in 1..Len(s) |->
        IF \E j \in 1..Len(UpperCase) : UpperCase[j] = s[i]
        THEN LowerCase[CHOOSE j \in 1..Len(UpperCase) : UpperCase[j] = s[i]]
        ELSE s[i]]

\* sub in s
Contains(sub, s) ==
    \E i \in 0..(Len(s) - Len(sub)) : SubSeq(s, i + 1, i + Len(sub)) = sub

----------------------------------------------------------------------------
(* get_tensor_type                                                         *)

type_mapping ==
    <<"FLOAT", "UINT8", "INT8", "UINT16", "INT16", "INT32", "INT64", "STRING",
      "BOOL", "FLOAT16", "DOUBLE", "UINT32", "UINT64", "COMPLEX64",
      "COMPLEX128", "BFLOAT16">>

get_tensor_type_off_by_one(tensor_type) ==
    IF tensor_type \in 0..(NumTypes - 1) THEN type_mapping[tensor_type + 1] ELSE "UNKNOWN"

get_tensor_type(tensor_type) ==
    IF tensor_type \in 1..NumTypes THEN type_mapping[tensor_type] ELSE "UNKNOWN"

----------------------------------------------------------------------------
(* extract_model_info                                                      *)

extract_model_info(m) ==
    << <<"Model Information",
         << <<"Model Name", m.graph.name>>,
            <<"Version", m.ir_version>>,
            <<"Producer Name", m.producer_name>>,
            <<"Producer Version", m.producer_version>>,
            <<"Description", m.doc_string>>,
            <<"Domain", m.domain>> >> >> >>

----------------------------------------------------------------------------
(* extract_io_specs.  A ValueInfo is [name, elem_type, dim, doc_string],   *)
(* dim the sequence of the dim_value of each dimension (0 for a dimension  *)
(* that is symbolic or unset, as protobuf reads an unset int64).           *)

PyInt(n) == <<"int", n>>
PyStr(s) == <<"str", s>>

shape_entry_nonneg(dim_value) ==
    IF dim_value >= 0 THEN PyInt(dim_value) ELSE PyStr("?")

shape_entry(dim_value) ==
    IF dim_value > 0 THEN PyInt(dim_value) ELSE PyStr("?")

io_spec(io) ==
    << <<"Data Type", get_tensor_type(io.elem_type)>>,
       <<"Shape", [j \in 1..Len(io.dim) |-> shape_entry(io.dim[j])]>>,
       <<"Documentation", IF io.doc_string # "" THEN io.doc_string ELSE "">> >>

RECURSIVE io_specs_loop(_, _)
io_specs_loop(specs, graph_io) ==
    IF Len(graph_io) = 0 THEN specs
    ELSE io_specs_loop(DictSet(specs, Head(graph_io).name, io_spec(Head(graph_io))),
                       Tail(graph_io))

extract_io_specs_fixed_label(graph_io, io_type) ==
    << <<"Input Specifications", io_specs_loop(<<>>, graph_io)>> >>

extract_io_specs(graph_io, io_type) ==
    << <<io_type \o " Specifications", io_specs_loop(<<>>, graph_io)>> >>

----------------------------------------------------------------------------
(* extract_custom_metadata.  A property is [key, value].                   *)

RECURSIVE custom_meta_loop(_, _)
custom_meta_loop(custom_meta, props) ==
    IF Len(props) = 0 THEN custom_meta
    ELSE custom_meta_loop(DictSet(custom_meta, Head(props).key, Head(props).value),
                          Tail(props))

extract_custom_metadata(m) ==
    << <<"Custom Metadata", custom_meta_loop(<<>>, m.metadata_props)>> >>

----------------------------------------------------------------------------
(* extract_additional_attributes.  An opset import is [domain, version].   *)

opset_key(domain) == IF domain # "" THEN domain ELSE "ai.onnx"

RECURSIVE opset_versions(_, _)
opset_versions(d, opset_import) ==
    IF Len(opset_import) = 0 THEN d
    ELSE opset_versions(DictSet(d, opset_key(Head(opset_import).domain),
                                Head(opset_import).version),
                        Tail(opset_import))

StrLicense == <<"l","i","c","e","n","s","e">>
StrFramework == <<"f","r","a","m","e","w","o","r","k">>

license_match_substring(key) == Contains(StrLicense, lower(key))

license_match(key) == lower(key) = StrLicense

framework_match(key) == Contains(StrFramework, lower(key))

\* The scan of lines 92-98; found is <<license_info, training_framework>>.
RECURSIVE scan_props(_, _)
scan_props(found, props) ==
    IF Len(props) = 0 THEN found
    ELSE LET prop == Head(props)
         IN  scan_props(IF license_match(prop.key) THEN <<prop.value, found[2]>>
                        ELSE IF framework_match(prop.key) THEN <<found[1], prop.value>>
                        ELSE found,
                        Tail(props))

extract_additional_attributes(m) ==
    LET found == scan_props(<<"", "">>, m.metadata_props)
    IN  << <<"Additional Attributes",
             << <<"Opset Versions", opset_versions(<<>>, m.opset_import)>>,
                <<"IR Version", m.ir_version>>,
                <<"Producer Name", m.producer_name>>,
                <<"Producer Version", m.producer_version>>,
                <<"License Information", found[1]>>,
                <<"Training Framework", found[2]>> >> >> >>

----------------------------------------------------------------------------
(* extract_graph_structure.  A node is [name, op_type, input, output,      *)
(* attribute], an attribute [name, type, value], an initializer            *)
(* [name, data_type, dims, float_data, int64_data].                        *)

\* onnx.helper.get_attribute_value: the field the attribute's type selects,
\* with the Python type it comes back as (AttributeProto.s is bytes).
get_attribute_value(attr) ==
    CASE attr.type = "INT" -> <<"int", attr.value>>
      [] attr.type = "STRING" -> <<"bytes", attr.value>>
      [] attr.type = "INTS" -> <<"list", attr.value>>
      [] OTHER -> <<"TensorProto", attr.value>>

RECURSIVE attributes_dict(_, _)
attributes_dict(d, attribute) ==
    IF Len(attribute) = 0 THEN d
    ELSE attributes_dict(DictSet(d, Head(attribute).name, get_attribute_value(Head(attribute))),
                         Tail(attribute))

node_info(node) ==
    << <<"Name", node.name>>,
       <<"Op Type", node.op_type>>,
       <<"Inputs", node.input>>,
       <<"Outputs", node.output>>,
       <<"Attributes", attributes_dict(<<>>, node.attribute)>> >>

\* float_data is handed over as the protobuf repeated field it is,
\* int64_data is copied into a list.
initializer_values_by_payload(initializer) ==
    IF Len(initializer.float_data) > 0
    THEN <<"RepeatedScalarContainer", initializer.float_data>>
    ELSE <<"list", initializer.int64_data>>

initializer_values(initializer) ==
    IF initializer.data_type = 1
    THEN <<"RepeatedScalarContainer", initializer.float_data>>
    ELSE <<"list", initializer.int64_data>>

initializer_entry(initializer) ==
    << <<"Data Type", get_tensor_type(initializer.data_type)>>,
       <<"Shape", initializer.dims>>,
       <<"Values", initializer_values(initializer)>> >>

RECURSIVE initializers_loop(_, _)
initializers_loop(initializers, initializer) ==
    IF Len(initializer) = 0 THEN initializers
    ELSE initializers_loop(DictSet(initializers, Head(initializer).name,
                                   initializer_entry(Head(initializer))),
                           Tail(initializer))

io_names(graph_io) == [i \in 1..Len(graph_io) |-> graph_io[i].name]

graph_nodes(graph) == [i \in 1..Len(graph.node) |-> node_info(graph.node[i])]

\* A nodes list that outlives the call: it still holds the previous
\* invocation's entries.
extract_graph_structure_stale_nodes(m) ==
    LET graph == m.graph
        kept  == IF prev.returned
                 THEN DictGet(DictGet(prev.metadata, "Graph Structure"), "Nodes")
                 ELSE <<>>
    IN  << <<"Graph Structure",
             << <<"Nodes", kept \o graph_nodes(graph)>>,
                <<"Initializers", initializers_loop(<<>>, graph.initializer)>>,
                <<"Inputs", io_names(graph.input)>>,
                <<"Outputs", io_names(graph.output)>> >> >> >>

\* Inputs taken from graph.output.
extract_graph_structure_outputs_twice(m) ==
    LET graph == m.graph
    IN  << <<"Graph Structure",
             << <<"Nodes", graph_nodes(graph)>>,
                <<"Initializers", initializers_loop(<<>>, graph.initializer)>>,
                <<"Inputs", io_names(graph.output)>>,
                <<"Outputs", io_names(graph.output)>> >> >> >>

extract_graph_structure(m) ==
    LET graph == m.graph
    IN  << <<"Graph Structure",
             << <<"Nodes", graph_nodes(graph)>>,
                <<"Initializers", initializers_loop(<<>>, graph.initializer)>>,
                <<"Inputs", io_names(graph.input)>>,
                <<"Outputs", io_names(graph.output)>> >> >> >>

----------------------------------------------------------------------------
(* json.dump(metadata, f, indent=4).  The encoder streams the text to f    *)
(* chunk by chunk; the text written is modelled one top-level item at a    *)
(* time: its key, then its value, or, when the value holds an object the   *)
(* encoder has no encoding for, the part of it written before TypeError    *)
(* is raised.                                                              *)

JsonTypes == {"int", "float", "str", "list", "dict", "bool", "NoneType"}

node_serializable(info) ==
    LET attrs == DictGet(info, "Attributes")
    IN  \A i \in 1..Len(attrs) : attrs[i][2][1] \in JsonTypes

graph_structure_serializable(gs) ==
    LET nodes == DictGet(gs, "Nodes")
        inits == DictGet(gs, "Initializers")
    IN  /\ \A i \in 1..Len(nodes) : node_serializable(nodes[i])
        /\ \A i \in 1..Len(inits) : DictGet(inits[i][2], "Values")[1] \in JsonTypes

\* The other sections hold only str, int, list and dict values.
section_serializable(key, value) ==
    IF key = "Graph Structure" THEN graph_structure_serializable(value) ELSE TRUE

RECURSIVE json_items(_)
json_items(d) ==
    IF Len(d) = 0 THEN [chunks |-> <<>>, raised |-> FALSE]
    ELSE LET k == d[1][1]
             v == d[1][2]
         IN  IF ~section_serializable(k, v)
             THEN [chunks |-> << <<"key", k>>, <<"partial", k>> >>, raised |-> TRUE]
             ELSE LET rest == json_items(Tail(d))
                  IN  [chunks |-> << <<"key", k>>, <<"value", v>> >> \o rest.chunks,
                       raised |-> rest.raised]

json_dump(obj) ==
    LET items == json_items(obj)
    IN  [chunks |-> << <<"punct", "{">> >> \o items.chunks
                    \o (IF items.raised THEN <<>> ELSE << <<"punct", "}">> >>),
         raised |-> items.raised]

----------------------------------------------------------------------------
(* The models the tool is run on: the minimal model of the round-trip      *)
(* scenario, with one of its repeated fields varied at a time.             *)

IdentityNode ==
    [name |-> "n0", op_type |-> "Identity", input |-> <<"x">>, output |-> <<"y">>,
     attribute |-> <<>>]

BaseModel ==
    [graph |-> [name |-> "g",
                node |-> <<IdentityNode>>,
                initializer |-> <<>>,
                input |-> <<[name |-> "x", elem_type |-> 1, dim |-> <<1, 3>>, doc_string |-> ""]>>,
                output |-> <<[name |-> "y", elem_type |-> 1, dim |-> <<1, 3>>, doc_string |-> ""]>>],
     ir_version |-> 8,
     producer_name |-> "pytorch",
     producer_version |-> "2.0",
     doc_string |-> "",
     domain |-> "",
     opset_import |-> <<[domain |-> "", version |-> 13]>>,
     metadata_props |-> <<>>]

TypeCodes == (0 - CodesBelow)..(NumTypes + CodesAbove)
DimValues == (-1)..MaxDimValue

\* ValueInfos that differ in name, type and shape.
NamedValueInfos ==
    [name : {"x", "y"}, elem_type : {1, 7}, dim : {<<1, 3>>, <<0>>}, doc_string : {""}]

\* ValueInfos that differ in shape and documentation.
ShapedValueInfos ==
    [name : {"x"}, elem_type : {1}, dim : SeqsUpTo(DimValues, MaxDims), doc_string : {"", "doc"}]

ValueInfoLists ==
    SeqsUpTo(NamedValueInfos, MaxIO) \cup {<<v>> : v \in ShapedValueInfos}

KeyLicense == <<"l","i","c","e","n","s","e">>
KeyLicenseCap == <<"L","i","c","e","n","s","e">>
KeyLicenseInfo == <<"L","i","c","e","n","s","e","I","n","f","o">>
KeyTrainingFramework ==
    <<"t","r","a","i","n","i","n","g","_","f","r","a","m","e","w","o","r","k","_","u","s","e","d">>
KeyFrameWork == <<"F","r","a","m","e","W","o","r","k">>
KeyOther == <<"k">>

PropKeys ==
    {KeyLicense, KeyLicenseCap, KeyLicenseInfo, KeyTrainingFramework, KeyFrameWork, KeyOther}

Props == [key : PropKeys, value : {"a", "b"}]

Opsets == [domain : {"", "ai.onnx", "com.custom"}, version : {1, 13}]

\* (data_type, float_data, int64_data); floats in tenths.
Payloads ==
    { <<1, <<15, 25>>, <<7>> >>, <<1, <<15, 25>>, <<>> >>, <<1, <<>>, <<7>> >>,
      <<7, <<>>, <<7>> >>,       <<7, <<15, 25>>, <<7>> >>, <<11, <<>>, <<>> >> }

Initializers ==
    {[name |-> n, data_type |-> p[1], dims |-> <<2>>, float_data |-> p[2], int64_data |-> p[3]]
        : n \in {"w", "b"}, p \in Payloads}

AttrAxis == [name |-> "axis", type |-> "INT", value |-> 1]
AttrAxis2 == [name |-> "axis", type |-> "INT", value |-> 2]
AttrMode == [name |-> "mode", type |-> "STRING", value |-> "linear"]
AttrPerm == [name |-> "perm", type |-> "INTS", value |-> <<1, 0>>]

Nodes ==
    {[IdentityNode EXCEPT !.attribute = a]
        : a \in {<<>>, <<AttrAxis>>, <<AttrAxis, AttrAxis2>>, <<AttrMode>>, <<AttrPerm, AttrAxis>>}}

InputModels == {[BaseModel EXCEPT !.graph.input = s] : s \in ValueInfoLists}
OutputModels == {[BaseModel EXCEPT !.graph.output = s] : s \in ValueInfoLists}
TypeModels ==
    {[BaseModel EXCEPT
        !.graph.input = <<[name |-> "x", elem_type |-> c, dim |-> <<1, 3>>, doc_string |-> ""]>>,
        !.graph.initializer = <<[name |-> "w", data_type |-> c, dims |-> <<2>>,
                                 float_data |-> <<15, 25>>, int64_data |-> <<7>>]>>]
        : c \in TypeCodes}
PropModels == {[BaseModel EXCEPT !.metadata_props = s] : s \in SeqsUpTo(Props, MaxProps)}
OpsetModels == {[BaseModel EXCEPT !.opset_import = s] : s \in SeqsUpTo(Opsets, MaxOpsets)}
InitializerModels ==
    {[BaseModel EXCEPT !.graph.initializer = s] : s \in SeqsUpTo(Initializers, MaxInits)}
NodeModels == {[BaseModel EXCEPT !.graph.node = s] : s \in SeqsUpTo(Nodes, MaxNodes)}

----------------------------------------------------------------------------
(* The __main__ block, one action per step.                                *)

NoPrev == [returned |-> FALSE, metadata |-> <<>>, output |-> <<>>]

Start ==
    /\ pc = "load"
    /\ metadata = <<>>
    /\ outFile = [exists |-> FALSE, content |-> <<>>]
    /\ handle = "none"
    /\ exc = "none"
    /\ stdout = <<>>
    /\ exitCode = -1
    /\ run = 1
    /\ prev = NoPrev

Init ==
    /\ \/ model \in InputModels
       \/ model \in OutputModels
       \/ model \in TypeModels
       \/ model \in PropModels
       \/ model \in OpsetModels
       \/ model \in InitializerModels
       \/ model \in NodeModels
    /\ Start

\* The uncaught exception ends the process with a traceback and status 1.
Raise(e) ==
    /\ exc' = e
    /\ pc' = "failed"
    /\ exitCode' = 1

\* onnx.load(model_path), then metadata = {}
Load ==
    /\ pc = "load"
    /\ \/ /\ pc' = "model_info"
          /\ metadata' = <<>>
          /\ UNCHANGED <<exc, exitCode>>
       \/ /\ Raise("load error")
          /\ UNCHANGED metadata
    /\ UNCHANGED <<model, outFile, handle, stdout, run, prev>>

Update(at, section, next) ==
    /\ pc = at
    /\ metadata' = DictUpdate(metadata, section)
    /\ pc' = next
    /\ UNCHANGED <<model, outFile, handle, exc, stdout, exitCode, run, prev>>

ModelInfo == Update("model_info", extract_model_info(model), "input_specs")

InputSpecs ==
    Update("input_specs", extract_io_specs(model.graph.input, "Input"), "output_specs")

OutputSpecs ==
    Update("output_specs", extract_io_specs(model.graph.output, "Output"), "custom_metadata")

CustomMetadata ==
    Update("custom_metadata", extract_custom_metadata(model), "additional_attributes")

AdditionalAttributes ==
    Update("additional_attributes", extract_additional_attributes(model), "graph_structure")

GraphStructure == Update("graph_structure", extract_graph_structure(model), "open")

\* open(args.output, "w"): creates or truncates the file.
Open ==
    /\ pc = "open"
    /\ \/ /\ outFile' = [exists |-> TRUE, content |-> <<>>]
          /\ handle' = "open"
          /\ pc' = "dump"
          /\ UNCHANGED <<exc, exitCode>>
       \/ /\ Raise("OSError")
          /\ UNCHANGED <<outFile, handle>>
    /\ UNCHANGED <<model, metadata, stdout, run, prev>>

\* A dump whose error is swallowed.
DumpSwallowed ==
    /\ pc = "dump"
    /\ outFile' = [outFile EXCEPT !.content = json_dump(metadata).chunks]
    /\ exc' = "none"
    /\ pc' = "close"
    /\ UNCHANGED <<model, metadata, handle, stdout, exitCode, run, prev>>

Dump ==
    /\ pc = "dump"
    /\ LET written == json_dump(metadata)
       IN  /\ outFile' = [outFile EXCEPT !.content = written.chunks]
           /\ exc' = IF written.raised THEN "TypeError" ELSE "none"
    /\ pc' = "close"
    /\ UNCHANGED <<model, metadata, handle, stdout, exitCode, run, prev>>

\* Leaving the with block closes f, whether or not an exception is passing.
Close ==
    /\ pc = "close"
    /\ handle' = "closed"
    /\ IF exc # "none"
       THEN /\ pc' = "failed"
            /\ exitCode' = 1
       ELSE /\ pc' = "print"
            /\ UNCHANGED exitCode
    /\ UNCHANGED <<model, metadata, outFile, exc, stdout, run, prev>>

Confirmation == "Metadata extracted and saved to args.output"

PrintConfirmation ==
    /\ pc = "print"
    /\ stdout' = Append(stdout, Confirmation)
    /\ pc' = "done"
    /\ exitCode' = 0
    /\ UNCHANGED <<model, metadata, outFile, handle, exc, run, prev>>

\* The tool is run again on the same model and output path, after a run
\* that extracted the metadata and opened the output.
Rerun ==
    /\ pc \in {"done", "failed"}
    /\ handle = "closed"
    /\ run < MaxRuns
    /\ run' = run + 1
    /\ prev' = [returned |-> TRUE, metadata |-> metadata, output |-> outFile.content]
    /\ pc' = "load"
    /\ metadata' = <<>>
    /\ handle' = "none"
    /\ exc' = "none"
    /\ stdout' = <<>>
    /\ exitCode' = -1
    /\ UNCHANGED <<model, outFile>>

Next ==
    \/ Load
    \/ ModelInfo
    \/ InputSpecs
    \/ OutputSpecs
    \/ CustomMetadata
    \/ AdditionalAttributes
    \/ GraphStructure
    \/ Open
    \/ Dump
    \/ Close
    \/ PrintConfirmation

Spec == Init /\ [][Next]_vars

NextTwice == Next \/ Rerun

SpecTwice == Init /\ [][NextTwice]_vars

----------------------------------------------------------------------------
(* Vocabulary of the properties.                                           *)

\* extract_onnx_metadata has returned its mapping.
Returned ==
    \/ pc \in {"open", "dump", "close", "print", "done"}
    \/ pc = "failed" /\ exc # "load error"

Exited == pc \in {"done", "failed"}

Section(key) == DictGet(metadata, key)

Elems(s) == {s[i] : i \in 1..Len(s)}

\* content is the whole JSON text of report: every item's key and value,
\* between the braces.
Complete(content, report) ==
    /\ Len(content) = 2 * Len(report) + 2
    /\ content[1] = <<"punct", "{">>
    /\ content[Len(content)] = <<"punct", "}">>
    /\ \A i \in 1..Len(report) :
          /\ content[2 * i] = <<"key", report[i][1]>>
          /\ content[2 * i + 1] = <<"value", report[i][2]>>

SixKeys ==
    <<"Model Information", "Input Specifications", "Output Specifications",
      "Custom Metadata", "Additional Attributes", "Graph Structure">>

\* Number of mappers that have been merged at each position.
Merged ==
    CASE pc = "load" -> 0
      [] pc = "model_info" -> 0
      [] pc = "input_specs" -> 1
      [] pc = "output_specs" -> 2
      [] pc = "custom_metadata" -> 3
      [] pc = "additional_attributes" -> 4
      [] pc = "graph_structure" -> 5
      [] OTHER -> IF Returned THEN 6 ELSE 0

----------------------------------------------------------------------------
(* C1: at process exit the output file either holds the complete JSON      *)
(* report or was not written at all (it was not created, truncated or      *)
(* left with part of the report), whichever step failed.                   *)
C1_AllOrNothing ==
    Exited => \/ ~outFile.exists
              \/ Returned /\ Complete(outFile.content, metadata)

(* C2: the mapping extract_onnx_metadata builds has exactly the six        *)
(* section keys in the fixed order; every mapper adds one new key and      *)
(* overwrites none, so after n mappers the keys are the first n of the     *)
(* six.                                                                    *)
C2_SixKeysInOrder ==
    /\ Len(metadata) = Merged
    /\ \A i \in 1..Len(metadata) : metadata[i][1] = SixKeys[i]

C2_Witness ==
    /\ pc = "done"
    /\ Len(metadata) = 6
    /\ Len(model.graph.input) = 2
    /\ Len(Section("Input Specifications")) = 2

(* C3: the confirmation is printed exactly when the report was completely  *)
(* written, after the write and the close of the handle; on every failure  *)
(* the error propagates, nothing is printed and the exit status is         *)
(* non-zero.                                                               *)
C3_ConfirmationIffWritten ==
    /\ stdout # <<>> =>
          /\ stdout = <<Confirmation>>
          /\ Returned
          /\ Complete(outFile.content, metadata)
          /\ handle = "closed"
          /\ exc = "none"
    /\ pc = "done" => stdout = <<Confirmation>> /\ exitCode = 0
    /\ pc = "failed" => stdout = <<>> /\ exitCode = 1 /\ exc # "none"
    /\ exitCode = 0 => pc = "done"
    /\ Exited =>
          (stdout = <<Confirmation>>
             <=> outFile.exists /\ Returned /\ Complete(outFile.content, metadata))

C3_Witness ==
    /\ pc = "done"
    /\ stdout = <<Confirmation>>
    /\ handle = "closed"
    /\ Complete(outFile.content, metadata)

Sides ==
    { <<model.graph.input, "Input Specifications", "Inputs">>,
      <<model.graph.output, "Output Specifications", "Outputs">> }

\* No later ValueInfo (initializer) of the list has the name of the i-th.
LastNamed(list, i) == \A j \in (i + 1)..Len(list) : list[j].name # list[i].name

ExpectedTypeName(code) ==
    CASE code = 1 -> "FLOAT"     [] code = 2 -> "UINT8"    [] code = 3 -> "INT8"
      [] code = 4 -> "UINT16"    [] code = 5 -> "INT16"    [] code = 6 -> "INT32"
      [] code = 7 -> "INT64"     [] code = 8 -> "STRING"   [] code = 9 -> "BOOL"
      [] code = 10 -> "FLOAT16"  [] code = 11 -> "DOUBLE"  [] code = 12 -> "UINT32"
      [] code = 13 -> "UINT64"   [] code = 14 -> "COMPLEX64"
      [] code = 15 -> "COMPLEX128" [] code = 16 -> "BFLOAT16"
      [] OTHER -> "UNKNOWN"

(* C5: the Shape emitted for a ValueInfo has one entry per dimension, in   *)
(* order: the integer d when the dimension value d is > 0, the placeholder *)
(* "?" when it is 0 (also a symbolic or unset dimension) or negative.      *)
C5_ShapeEntries ==
    Returned =>
        \A side \in Sides : \A i \in 1..Len(side[1]) :
            LastNamed(side[1], i) =>
                LET io == side[1][i]
                    shape == DictGet(DictGet(Section(side[2]), io.name), "Shape")
                IN  /\ Len(shape) = Len(io.dim)
                    /\ \A j \in 1..Len(io.dim) :
                          /\ io.dim[j] > 0 => shape[j] = <<"int", io.dim[j]>>
                          /\ io.dim[j] <= 0 => shape[j] = <<"str", "?">>

C5_Witness ==
    /\ Returned
    /\ Len(model.graph.input) = 1
    /\ model.graph.input[1].dim = <<0, 2>>
    /\ DictGet(DictGet(Section("Input Specifications"), "x"), "Shape")
          = << <<"str", "?">>, <<"int", 2>> >>

ExpectedOpsetKey(domain) == IF domain = "" THEN "ai.onnx" ELSE domain

(* C6: "Custom Metadata" maps every property key to the value of the last  *)
(* property with that key, and "Opset Versions" maps every domain (the     *)
(* empty domain under the key "ai.onnx") to the version of the last entry  *)
(* recorded under that key; neither mapping has any other key.             *)
C6_LastWriteWins ==
    Returned =>
        LET props  == model.metadata_props
            custom == Section("Custom Metadata")
            opsets == model.opset_import
            versions == DictGet(Section("Additional Attributes"), "Opset Versions")
        IN  /\ Elems(DictKeys(custom)) = {props[i].key : i \in 1..Len(props)}
            /\ Len(custom) = Cardinality({props[i].key : i \in 1..Len(props)})
            /\ \A i \in 1..Len(props) :
                  (\A j \in (i + 1)..Len(props) : props[j].key # props[i].key)
                     => DictGet(custom, props[i].key) = props[i].value
            /\ Elems(DictKeys(versions))
                  = {ExpectedOpsetKey(opsets[i].domain) : i \in 1..Len(opsets)}
            /\ Len(versions)
                  = Cardinality({ExpectedOpsetKey(opsets[i].domain) : i \in 1..Len(opsets)})
            /\ \A i \in 1..Len(opsets) :
                  (\A j \in (i + 1)..Len(opsets) :
                      ExpectedOpsetKey(opsets[j].domain) # ExpectedOpsetKey(opsets[i].domain))
                     => DictGet(versions, ExpectedOpsetKey(opsets[i].domain)) = opsets[i].version

C6_Witness ==
    /\ Returned
    /\ model.opset_import = <<[domain |-> "", version |-> 1], [domain |-> "ai.onnx", version |-> 13]>>
    /\ DictGet(Section("Additional Attributes"), "Opset Versions") = << <<"ai.onnx", 13>> >>

Largest(S) == CHOOSE n \in S : \A k \in S : k <= n

LicenseKeys == {KeyLicense, KeyLicenseCap}
FrameworkKeys == {KeyTrainingFramework, KeyFrameWork}

(* C7: "License Information" is the value of the last property whose key   *)
(* is "license" in any letter case ("LicenseInfo" does not match),         *)
(* "Training Framework" the value of the last property whose key contains  *)
(* "framework" in any letter case; each is "" when nothing matches, and    *)
(* depends only on the properties that match its own rule.                 *)
C7_LicenseAndFramework ==
    Returned =>
        LET props == model.metadata_props
            attrs == Section("Additional Attributes")
            lic == {i \in 1..Len(props) : props[i].key \in LicenseKeys}
            fw  == {i \in 1..Len(props) : props[i].key \in FrameworkKeys}
        IN  /\ DictGet(attrs, "License Information")
                  = IF lic = {} THEN "" ELSE props[Largest(lic)].value
            /\ DictGet(attrs, "Training Framework")
                  = IF fw = {} THEN "" ELSE props[Largest(fw)].value

C7_Witness ==
    /\ Returned
    /\ model.metadata_props = <<[key |-> KeyLicenseInfo, value |-> "a"],
                                [key |-> KeyTrainingFramework, value |-> "b"]>>
    /\ DictGet(Section("Additional Attributes"), "License Information") = ""
    /\ DictGet(Section("Additional Attributes"), "Training Framework") = "b"

(* C8: the entry of an initializer has as Values the float_data sequence   *)
(* when its datatype code is 1, whatever int64_data holds, and the         *)
(* int64_data sequence for every other code, whatever float_data holds;    *)
(* its Data Type is the decoded name of the code and its Shape the dims.   *)
C8_InitializerValues ==
    Returned =>
        LET inits == model.graph.initializer
            entries == DictGet(Section("Graph Structure"), "Initializers")
        IN  \A i \in 1..Len(inits) :
                LastNamed(inits, i) =>
                    LET entry == DictGet(entries, inits[i].name)
                    IN  /\ DictGet(entry, "Values")[2]
                              = IF inits[i].data_type = 1 THEN inits[i].float_data
                                ELSE inits[i].int64_data
                        /\ DictGet(entry, "Data Type") = get_tensor_type(inits[i].data_type)
                        /\ DictGet(entry, "Shape") = inits[i].dims

C8_Witness ==
    /\ Returned
    /\ Len(model.graph.initializer) = 2
    /\ model.graph.initializer[1].data_type = 1
    /\ model.graph.initializer[1].int64_data = <<7>>
    /\ model.graph.initializer[2].data_type = 7
    /\ model.graph.initializer[2].float_data = <<15, 25>>
    /\ model.graph.initializer[1].name # model.graph.initializer[2].name
    /\ LET entries == DictGet(Section("Graph Structure"), "Initializers")
       IN  /\ DictGet(entries[1][2], "Values")[2] = <<15, 25>>
           /\ DictGet(entries[2][2], "Values")[2] = <<7>>

(* C9: the Data Type reported for a datatype code is the name the fixed    *)
(* table gives the codes 1..16 and "UNKNOWN" for every other integer,      *)
(* zero and the negative ones included.                                    *)
C9_TensorTypeTable ==
    Returned =>
        /\ \A side \in Sides : \A i \in 1..Len(side[1]) :
              LastNamed(side[1], i) =>
                  DictGet(DictGet(Section(side[2]), side[1][i].name), "Data Type")
                     = ExpectedTypeName(side[1][i].elem_type)
        /\ LET inits == model.graph.initializer
           IN  \A i \in 1..Len(inits) :
                  LastNamed(inits, i) =>
                      DictGet(DictGet(DictGet(Section("Graph Structure"), "Initializers"),
                                      inits[i].name), "Data Type")
                         = ExpectedTypeName(inits[i].data_type)

C9_Witness ==
    /\ Returned
    /\ Len(model.graph.input) = 1
    /\ model.graph.input[1].elem_type = -1
    /\ DictGet(DictGet(Section("Input Specifications"), "x"), "Data Type") = "UNKNOWN"

(* C10: in one report the keys of "Input Specifications" are the names     *)
(* listed in "Graph Structure"."Inputs" (likewise for the outputs); the    *)
(* list has one name per ValueInfo in graph order, duplicates included,    *)
(* the mapping one entry per distinct name with the data of the last       *)
(* ValueInfo of that name, so it is never longer than the list.            *)
C10_SpecsMatchNameLists ==
    Returned =>
        \A side \in Sides :
            LET specs == Section(side[2])
                names == DictGet(Section("Graph Structure"), side[3])
            IN  /\ Elems(DictKeys(specs)) = Elems(names)
                /\ Len(names) = Len(side[1])
                /\ \A i \in 1..Len(names) : names[i] = side[1][i].name
                /\ Len(specs) = Cardinality(Elems(names))
                /\ Len(specs) <= Len(names)
                /\ \A i \in 1..Len(side[1]) :
                      LastNamed(side[1], i) =>
                          LET entry == DictGet(specs, side[1][i].name)
                          IN  /\ DictGet(entry, "Data Type")
                                    = ExpectedTypeName(side[1][i].elem_type)
                              /\ Len(DictGet(entry, "Shape")) = Len(side[1][i].dim)
                              /\ DictGet(entry, "Documentation") = side[1][i].doc_string

C10_Witness ==
    /\ Returned
    /\ Len(model.graph.input) = 2
    /\ model.graph.input[1].name = model.graph.input[2].name
    /\ model.graph.input[1].elem_type # model.graph.input[2].elem_type
    /\ Len(Section("Input Specifications")) = 1
    /\ DictGet(Section("Graph Structure"), "Inputs") = <<"x", "x">>

====
